---- MODULE Spec2Model ----
(***************************************************************************)
(* Account linking and subscription reconciliation of the gatekeeper       *)
(* backend.  Two handler files work on the same two tables (users and      *)
(* link_tokens): the handler file with the e-mail magic link (routes       *)
(* /link/start, /link, /link/scan, /link/finish, /webhook) and server.js   *)
(* with the checkout redirect (routes /link/start, /link, /webhook).       *)
(* Every pool.query is one atomic step on the tables; a handler that makes *)
(* several queries is several steps, and the steps of concurrent requests  *)
(* interleave freely.  Time is counted in ticks of 30 minutes.             *)
(***************************************************************************)
EXTENDS Integers, FiniteSets, Sequences, TLC

\* ---------------------------------------------------------------- bounds
MaxEvents == 4      \* requests accepted plus clock ticks in one behaviour
NumProcs == 2       \* requests in flight at the same time

\* ------------------------------------------------------- program constants
HandshakeTTL == 1   \* interval '30 minutes'
MagicTTL == 2       \* interval '1 hour'
StartGrace == 48    \* interval '24 hours'
SrvGrace == 96      \* interval '48 hours' (users.link_deadline)
SrvTokenTTL == 96   \* interval '48 hours' (link_tokens.expires_at)

NoTime == -1        \* SQL NULL in a timestamp column
NULL == "NULL"      \* SQL NULL / JS undefined in a text column or parameter

Users == {"u1", "u2"}
Customers == {"cus_1", "cus_2"}
Emails == {"none@x", "nosub@x", "ok@x"}
PeriodEnds == {1, 60}
Procs == 1..NumProcs

VARIABLES
    users,      \* table users: discord_id -> row
    tokens,     \* table link_tokens: the rows in order of insertion
    now,        \* the database clock, now()
    req,        \* the requests in flight: slot -> handler position and locals
    resp,       \* the response sent last
    served      \* requests accepted and clock ticks so far

vars == <<users, tokens, now, req, resp, served>>

\* ------------------------------------------------------ billing provider
\* stripe.customers.list({ email, limit: 1 }): the first customer or none.
StripeCustomer(email) ==
    CASE email = "ok@x" -> "cus_1"
      [] email = "nosub@x" -> "cus_2"
      [] OTHER -> NULL

\* stripe.subscriptions.list({ customer, status: 'active' }) is not empty.
StripeHasActiveSub(customer) == customer = "cus_1"

\* ------------------------------------------------------------- requests
\* Mutant of MagicMeta: the payload names a customer other than the one found.
MagicMetaOther(c) == [type |-> NULL, customer_id |-> IF c = "cus_1" THEN "cus_2" ELSE "cus_1"]

HandshakeMeta == [type |-> "initial_handshake", customer_id |-> NULL]
MagicMeta(c) == [type |-> NULL, customer_id |-> c]
\* No metadata given to the INSERT (server.js): the column's default.
NoMeta == [type |-> "no_metadata", customer_id |-> NULL]

\* A request slot: where the handler stands (pc) and what it read so far
\* (tok, uid, meta).
Idle == [pc |-> "idle", op |-> "none", tok |-> 0, uid |-> NULL, meta |-> NoMeta]

NoResponse == [op |-> "none", tok |-> 0, out |-> 0, code |-> 0, body |-> "none"]

\* A new request takes the lowest free slot.
Free(p) == /\ req[p].pc = "idle"
           /\ \A q \in Procs : q < p => req[q].pc # "idle"

\* The request is accepted: slot p is free and the budget is not used up.
Accept(p) == /\ Free(p)
             /\ served < MaxEvents
             /\ served' = served + 1

\* res.send / res.json / res.status(code).send: the handler is over.
Respond(p, op, tok, out, code, body) ==
    /\ req' = [req EXCEPT ![p] = Idle]
    /\ resp' = [op |-> op, tok |-> tok, out |-> out, code |-> code, body |-> body]

\* The handler awaits its next query.
Goto(p, pc, op, tok, uid, meta) ==
    /\ req' = [req EXCEPT ![p] = [pc |-> pc, op |-> op, tok |-> tok, uid |-> uid,
                                  meta |-> meta]]
    /\ resp' = resp

\* The secrets a client can send: those issued so far and one never issued.
Secrets == 0..Len(tokens)

\* ------------------------------------------------------------ the tables
HasToken(t) == t \in 1..Len(tokens)

\* Mutant of InsertToken: the INSERT also spends the owner's earlier tokens.
InsertTokenRevoking(discordId, ttl, metadata) ==
    Append([t \in 1..Len(tokens) |->
               IF tokens[t].discord_id = discordId
               THEN [tokens[t] EXCEPT !.used_at = now]
               ELSE tokens[t]],
           [discord_id |-> discordId, expires_at |-> now + ttl,
            used_at |-> NoTime, metadata |-> metadata])

\* INSERT INTO link_tokens (token, discord_id, expires_at, metadata): the
\* secret of makeToken() is the row's index.
InsertToken(discordId, ttl, metadata) ==
    Append(tokens, [discord_id |-> discordId, expires_at |-> now + ttl,
                    used_at |-> NoTime, metadata |-> metadata])

\* UPDATE link_tokens SET used_at = now() WHERE token = $1
MarkUsed(t) ==
    IF HasToken(t) THEN [tokens EXCEPT ![t].used_at = now] ELSE tokens

\* A row of users.  An INSERT names neither stripe_customer_id nor updated_at:
\* both start NULL.
UserRow(status, customer, deadline, updated) ==
    [subscription_status |-> status, stripe_customer_id |-> customer,
     link_deadline |-> deadline, updated_at |-> updated]

\* Mutant of FinishActivate: the UPDATE has no WHERE clause.
FinishActivateAll(rows, customerId, discordId, t) ==
    [u \in DOMAIN rows |->
        [rows[u] EXCEPT !.stripe_customer_id = customerId,
                        !.subscription_status = "active",
                        !.updated_at = t]]

\* Mutant of FinishActivate: the UPDATE forgets stripe_customer_id.
FinishActivateStatusOnly(rows, customerId, discordId, t) ==
    [u \in DOMAIN rows |->
        IF u = discordId
        THEN [rows[u] EXCEPT !.subscription_status = "active", !.updated_at = t]
        ELSE rows[u]]

\* UPDATE users SET stripe_customer_id = $1, subscription_status = 'active',
\* updated_at = now() WHERE discord_id = $2   (GET /link/finish)
FinishActivate(rows, customerId, discordId, t) ==
    [u \in DOMAIN rows |->
        IF u = discordId
        THEN [rows[u] EXCEPT !.stripe_customer_id = customerId,
                             !.subscription_status = "active",
                             !.updated_at = t]
        ELSE rows[u]]

\* Mutant of CheckoutActivate: the UPDATE forgets subscription_status.
CheckoutActivateLinkOnly(rows, customerId, discordId, t) ==
    [u \in DOMAIN rows |->
        IF u = discordId
        THEN [rows[u] EXCEPT !.stripe_customer_id = customerId, !.updated_at = t]
        ELSE rows[u]]

\* The same statement in server.js (checkout.session.completed).
CheckoutActivate(rows, customerId, discordId, t) ==
    [u \in DOMAIN rows |->
        IF u = discordId
        THEN [rows[u] EXCEPT !.stripe_customer_id = customerId,
                             !.subscription_status = "active",
                             !.updated_at = t]
        ELSE rows[u]]

\* Mutant of KickByCustomer: the UPDATE has no WHERE clause.
KickByCustomerAll(rows, customer, deadline) ==
    [u \in DOMAIN rows |->
        [rows[u] EXCEPT !.subscription_status = "unlinked",
                        !.link_deadline = deadline]]

\* UPDATE users SET subscription_status = 'unlinked', link_deadline = $d
\* WHERE stripe_customer_id = $1   (a NULL parameter matches no row)
KickByCustomer(rows, customer, deadline) ==
    [u \in DOMAIN rows |->
        IF customer # NULL /\ rows[u].stripe_customer_id = customer
        THEN [rows[u] EXCEPT !.subscription_status = "unlinked",
                             !.link_deadline = deadline]
        ELSE rows[u]]

\* UPDATE users SET subscription_status = 'inactive' WHERE stripe_customer_id = $1
DeactivateByCustomer(rows, customer) ==
    [u \in DOMAIN rows |->
        IF customer # NULL /\ rows[u].stripe_customer_id = customer
        THEN [rows[u] EXCEPT !.subscription_status = "inactive"]
        ELSE rows[u]]

\* Mutant of UpsertUser: ON CONFLICT DO UPDATE writes the whole new row.
UpsertUserReset(discordId) ==
    [u \in DOMAIN users \cup {discordId} |->
        IF u = discordId THEN UserRow("unlinked", NULL, now + StartGrace, NoTime)
        ELSE users[u]]

\* INSERT INTO users ... VALUES ($1, 'unlinked', now() + interval '24 hours')
\* ON CONFLICT (discord_id) DO NOTHING
UpsertUser(discordId) ==
    IF discordId \in DOMAIN users
    THEN users
    ELSE [u \in DOMAIN users \cup {discordId} |->
            IF u = discordId THEN UserRow("unlinked", NULL, now + StartGrace, NoTime)
            ELSE users[u]]

\* INSERT INTO users ... VALUES ($1, 'unlinked', now() + interval '48 hours')
\* ON CONFLICT (discord_id) DO UPDATE SET link_deadline = now() + interval '48 hours'
SrvUpsertUser(discordId) ==
    [u \in DOMAIN users \cup {discordId} |->
        IF u # discordId THEN users[u]
        ELSE IF discordId \in DOMAIN users
             THEN [users[u] EXCEPT !.link_deadline = now + SrvGrace]
             ELSE UserRow("unlinked", NULL, now + SrvGrace, NoTime)]

\* ... WHERE token = $1 AND expires_at > now() AND used_at IS NULL
LiveToken(t) ==
    /\ HasToken(t)
    /\ tokens[t].expires_at > now
    /\ tokens[t].used_at = NoTime

\* SELECT * FROM link_tokens WHERE token = $1   (POST /link/scan)
ScanFinds(t) == HasToken(t)

\* Mutant of FinishFinds: the SELECT forgets used_at IS NULL.
FinishFindsAny(t) == HasToken(t)

\* SELECT * FROM link_tokens WHERE token = $1 AND used_at IS NULL   (GET /link/finish)
FinishFinds(t) == HasToken(t) /\ tokens[t].used_at = NoTime

\* ---------------------------------------------------------- webhook events
\* The fields the handlers read: invoice.customer, sub.customer and
\* sub.current_period_end, session.metadata.discord_id and session.customer.
\* A field a type does not carry is NULL (0 for the period end).
Events ==
    [type : {"invoice.payment_failed"}, customer : Customers \cup {NULL},
     discord_id : {NULL}, current_period_end : {0}]
    \cup [type : {"customer.subscription.deleted"}, customer : Customers \cup {NULL},
          discord_id : {NULL}, current_period_end : PeriodEnds]
    \cup [type : {"checkout.session.completed"}, customer : Customers \cup {NULL},
          discord_id : Users \cup {NULL}, current_period_end : {0}]

\* The handler file's /webhook on a verified event, handled at time t: the
\* users table after it.
ApplyEvent(rows, e, t) ==
    CASE e.type = "invoice.payment_failed" -> KickByCustomer(rows, e.customer, t)
      [] e.type = "customer.subscription.deleted" ->
            KickByCustomer(rows, e.customer, e.current_period_end)
      [] OTHER -> rows

\* server.js's /webhook on a verified event, handled at time t: the users table
\* after it.
SrvApplyEvent(rows, e, t) ==
    CASE e.type = "checkout.session.completed" ->
            IF e.discord_id # NULL
            THEN CheckoutActivate(rows, e.customer, e.discord_id, t)
            ELSE rows
      [] e.type = "customer.subscription.deleted" ->
            DeactivateByCustomer(rows, e.customer)
      [] OTHER -> rows

\* ------------------------------------------------------------------ steps
Init ==
    /\ users = [u \in {} |-> UserRow("unlinked", NULL, NoTime, NoTime)]
    /\ tokens = <<>>
    /\ now = 0
    /\ req = [p \in Procs |-> Idle]
    /\ resp = NoResponse
    /\ served = 0

\* Thirty minutes pass.
Tick ==
    /\ served < MaxEvents
    /\ served' = served + 1
    /\ now' = now + 1
    /\ UNCHANGED <<users, tokens, req, resp>>

\* Mutant of Webhook: the event is handled whatever constructEvent says.
WebhookUnchecked(p, sigOk, e) ==
    /\ Accept(p)
    /\ users' = ApplyEvent(users, e, now)
    /\ Respond(p, "webhook", 0, 0, 200, "received")
    /\ UNCHANGED <<tokens, now>>

\* POST /webhook of the handler file.
Webhook(p, sigOk, e) ==
    /\ Accept(p)
    /\ IF sigOk
       THEN /\ users' = ApplyEvent(users, e, now)
            /\ Respond(p, "webhook", 0, 0, 200, "received")
       ELSE /\ users' = users
            /\ Respond(p, "webhook", 0, 0, 400, "Webhook Error")
    /\ UNCHANGED <<tokens, now>>

\* The handler file's /webhook runs a query for event e (it has a customer).
Queries(e) ==
    /\ e.type \in {"invoice.payment_failed", "customer.subscription.deleted"}
    /\ e.customer # NULL

\* POST /webhook of the handler file when the store is unavailable: the query
\* of a verified event throws, the catch logs it, and res.json({received:
\* true}) is sent all the same.
Webhook_StoreDown(p, e) ==
    /\ Accept(p)
    /\ Queries(e)
    /\ Respond(p, "webhook", 0, 0, 200, "received")
    /\ UNCHANGED <<users, tokens, now>>

\* POST /link/start of the handler file, first query.
LinkStart_Upsert(p, discordId) ==
    /\ Accept(p)
    /\ users' = UpsertUser(discordId)
    /\ Goto(p, "start_issue", "start", 0, discordId, HandshakeMeta)
    /\ UNCHANGED <<tokens, now>>

\* POST /link/start of the handler file, second query and the response.
LinkStart_Issue(p) ==
    /\ req[p].pc = "start_issue"
    /\ tokens' = InsertToken(req[p].uid, HandshakeTTL, req[p].meta)
    /\ Respond(p, "start", 0, Len(tokens) + 1, 200, "url")
    /\ UNCHANGED <<users, now, served>>

\* Mutant of LinkPresent: a live token is marked used when it is presented.
LinkPresentMarks(p, t) ==
    /\ Accept(p)
    /\ IF LiveToken(t)
       THEN /\ tokens' = MarkUsed(t)
            /\ Respond(p, "present", t, 0, 200, "form")
       ELSE /\ tokens' = tokens
            /\ Respond(p, "present", t, 0, 403, "Invalid link.")
    /\ UNCHANGED <<users, now>>

\* GET /link of the handler file.
LinkPresent(p, t) ==
    /\ Accept(p)
    /\ IF LiveToken(t)
       THEN Respond(p, "present", t, 0, 200, "form")
       ELSE Respond(p, "present", t, 0, 403, "Invalid link.")
    /\ UNCHANGED <<users, tokens, now>>

\* POST /link/scan: the SELECT and the two provider lookups.
LinkScan_Select(p, t, email) ==
    /\ Accept(p)
    /\ IF ~ScanFinds(t)
       THEN Respond(p, "scan", t, 0, 403, "Expired.")
       ELSE IF StripeCustomer(email) = NULL
       THEN Respond(p, "scan", t, 0, 200, "no_customer")
       ELSE IF ~StripeHasActiveSub(StripeCustomer(email))
       THEN Respond(p, "scan", t, 0, 200, "no_subscription")
       ELSE /\ Goto(p, "scan_mark", "scan", t, tokens[t].discord_id,
                    MagicMeta(StripeCustomer(email)))
    /\ UNCHANGED <<users, tokens, now>>

\* POST /link/scan: UPDATE link_tokens SET used_at.
LinkScan_Mark(p) ==
    /\ req[p].pc = "scan_mark"
    /\ tokens' = MarkUsed(req[p].tok)
    /\ req' = [req EXCEPT ![p].pc = "scan_issue"]
    /\ resp' = resp
    /\ UNCHANGED <<users, now, served>>

\* Mutant of LinkScan_Issue: a failed delivery undoes the mark and issues no
\* magic token.
LinkScan_IssueRollback(p, mailOk) ==
    /\ req[p].pc = "scan_issue"
    /\ tokens' = IF mailOk
                 THEN InsertToken(req[p].uid, MagicTTL, req[p].meta)
                 ELSE [tokens EXCEPT ![req[p].tok].used_at = NoTime]
    /\ Respond(p, "scan", req[p].tok, IF mailOk THEN Len(tokens) + 1 ELSE 0, 200,
               IF mailOk THEN "email_sent" ELSE "email_failed")
    /\ UNCHANGED <<users, now, served>>

\* POST /link/scan: INSERT the magic token, post the e-mail, respond.
LinkScan_Issue(p, mailOk) ==
    /\ req[p].pc = "scan_issue"
    /\ tokens' = InsertToken(req[p].uid, MagicTTL, req[p].meta)
    /\ Respond(p, "scan", req[p].tok, Len(tokens) + 1, 200,
               IF mailOk THEN "email_sent" ELSE "email_failed")
    /\ UNCHANGED <<users, now, served>>

\* GET /link/finish: the SELECT.
LinkFinish_Select(p, t) ==
    /\ Accept(p)
    /\ IF FinishFinds(t)
       THEN Goto(p, "finish_mark", "finish", t, tokens[t].discord_id,
                 tokens[t].metadata)
       ELSE Respond(p, "finish", t, 0, 403, "Invalid link.")
    /\ UNCHANGED <<users, tokens, now>>

\* GET /link/finish: UPDATE link_tokens SET used_at.
LinkFinish_Mark(p) ==
    /\ req[p].pc = "finish_mark"
    /\ tokens' = MarkUsed(req[p].tok)
    /\ req' = [req EXCEPT ![p].pc = "finish_write"]
    /\ resp' = resp
    /\ UNCHANGED <<users, now, served>>

\* GET /link/finish: UPDATE users, respond.  A row inserted without metadata
\* holds the column's default: an empty object (customer_id is undefined and
\* is sent as NULL) or NULL (reading metadata.customer_id throws: 500).
LinkFinish_Write(p, metaIsNull) ==
    /\ req[p].pc = "finish_write"
    /\ IF req[p].meta = NoMeta /\ metaIsNull
       THEN /\ users' = users
            /\ Respond(p, "finish", req[p].tok, 0, 500, "Error")
       ELSE /\ users' = FinishActivate(users, req[p].meta.customer_id, req[p].uid, now)
            /\ Respond(p, "finish", req[p].tok, 0, 200, "Linked!")
    /\ UNCHANGED <<tokens, now, served>>

\* POST /webhook of server.js.
SrvWebhook(p, sigOk, e) ==
    /\ Accept(p)
    /\ IF sigOk
       THEN /\ users' = SrvApplyEvent(users, e, now)
            /\ Respond(p, "srv_webhook", 0, 0, 200, "received")
       ELSE /\ users' = users
            /\ Respond(p, "srv_webhook", 0, 0, 400, "Webhook Error")
    /\ UNCHANGED <<tokens, now>>

\* server.js's /webhook runs a query for event e.
SrvQueries(e) ==
    \/ e.type = "checkout.session.completed" /\ e.discord_id # NULL
    \/ e.type = "customer.subscription.deleted"

\* POST /webhook of server.js when the store is unavailable: the query of a
\* verified event throws inside its own try, the catch logs it, and
\* res.json({ received: true }) is sent all the same.
SrvWebhook_StoreDown(p, e) ==
    /\ Accept(p)
    /\ SrvQueries(e)
    /\ Respond(p, "srv_webhook", 0, 0, 200, "received")
    /\ UNCHANGED <<users, tokens, now>>

\* POST /link/start of server.js, the check of the body and the first query.
SrvLinkStart_Upsert(p, discordId) ==
    /\ Accept(p)
    /\ IF discordId = NULL
       THEN /\ users' = users
            /\ Respond(p, "srv_start", 0, 0, 400, "Missing discordId")
       ELSE /\ users' = SrvUpsertUser(discordId)
            /\ Goto(p, "srv_start_issue", "srv_start", 0, discordId, NoMeta)
    /\ UNCHANGED <<tokens, now>>

\* POST /link/start of server.js, second query and the response.
SrvLinkStart_Issue(p) ==
    /\ req[p].pc = "srv_start_issue"
    /\ tokens' = InsertToken(req[p].uid, SrvTokenTTL, req[p].meta)
    /\ Respond(p, "srv_start", 0, Len(tokens) + 1, 200, "url")
    /\ UNCHANGED <<users, now, served>>

\* GET /link of server.js: the SELECT.
SrvLink_Select(p, t) ==
    /\ Accept(p)
    /\ IF LiveToken(t)
       THEN Goto(p, "srv_link_mark", "srv_link", t, tokens[t].discord_id, NoMeta)
       ELSE Respond(p, "srv_link", t, 0, 403, "Invalid or expired link.")
    /\ UNCHANGED <<users, tokens, now>>

\* GET /link of server.js: UPDATE link_tokens SET used_at, then the redirect
\* to the checkout session.
SrvLink_Mark(p) ==
    /\ req[p].pc = "srv_link_mark"
    /\ tokens' = MarkUsed(req[p].tok)
    /\ Respond(p, "srv_link", req[p].tok, 0, 302, "checkout")
    /\ UNCHANGED <<users, now, served>>

Next ==
    \/ Tick
    \/ \E p \in Procs, sigOk \in BOOLEAN, e \in Events : Webhook(p, sigOk, e)
    \/ \E p \in Procs, u \in Users : LinkStart_Upsert(p, u)
    \/ \E p \in Procs : LinkStart_Issue(p)
    \/ \E p \in Procs, t \in Secrets : LinkPresent(p, t)
    \/ \E p \in Procs, t \in Secrets, email \in Emails : LinkScan_Select(p, t, email)
    \/ \E p \in Procs : LinkScan_Mark(p)
    \/ \E p \in Procs, mailOk \in BOOLEAN : LinkScan_Issue(p, mailOk)
    \/ \E p \in Procs, t \in Secrets : LinkFinish_Select(p, t)
    \/ \E p \in Procs : LinkFinish_Mark(p)
    \/ \E p \in Procs, metaIsNull \in BOOLEAN : LinkFinish_Write(p, metaIsNull)
    \/ \E p \in Procs, sigOk \in BOOLEAN, e \in Events : SrvWebhook(p, sigOk, e)
    \/ \E p \in Procs, u \in Users \cup {NULL} : SrvLinkStart_Upsert(p, u)
    \/ \E p \in Procs : SrvLinkStart_Issue(p)
    \/ \E p \in Procs, t \in Secrets : SrvLink_Select(p, t)
    \/ \E p \in Procs : SrvLink_Mark(p)
    \/ \E p \in Procs, e \in Events : Webhook_StoreDown(p, e)
    \/ \E p \in Procs, e \in Events : SrvWebhook_StoreDown(p, e)

Spec == Init /\ [][Next]_vars

\* ------------------------------------------------------------ the claims
\* Request p is turned away with 403 in this step.
Denied(p) == req'[p].pc = "idle" /\ resp'.code = 403

\* The handler of request p ends in this step and leaves both tables alone.
Refused(p) == req'[p].pc = "idle" /\ users' = users /\ tokens' = tokens

Used(t) == HasToken(t) /\ tokens[t].used_at # NoTime

\* A verification token: its payload names a customer.
IsVerification(meta) == meta.customer_id # NULL

\* Response r tells its caller that the redemption of secret t succeeded.
RedeemOk(r, t) ==
    /\ r.tok = t
    /\ \/ r.op = "scan" /\ r.body \in {"email_sent", "email_failed"}
       \/ r.op = "finish" /\ r.code = 200

\* Request p sends the response of a successful redemption in this step.
SendsRedeemOk(p) ==
    /\ \E x \in BOOLEAN : LinkFinish_Write(p, x) \/ LinkScan_Issue(p, x)
    /\ RedeemOk(resp', req[p].tok)

\* C1: redemption of a secret succeeds at most once: when the last response
\* told a caller that the redemption of a secret succeeded, no request tells
\* its caller the same for that secret.
C1_RedeemAtMostOnce ==
    [][\A p \in Procs : ~(RedeemOk(resp, req[p].tok) /\ SendsRedeemOk(p))]_vars

StartStep(p) ==
    \/ \E u \in Users : LinkStart_Upsert(p, u)
    \/ LinkStart_Issue(p)
    \/ \E u \in Users \cup {NULL} : SrvLinkStart_Upsert(p, u)
    \/ SrvLinkStart_Issue(p)

\* C2: no step of a start request (either handler file) takes an active
\* record out of active or changes its stripe_customer_id.
C2_StartKeepsActive ==
    [][\A p \in Procs : StartStep(p) =>
          \A u \in DOMAIN users :
              users[u].subscription_status = "active" =>
                  /\ users'[u].subscription_status = "active"
                  /\ users'[u].stripe_customer_id = users[u].stripe_customer_id]_vars

\* A start of server.js has just refreshed the deadline of a record (only its
\* upsert writes now + 48 hours) that was made active and linked to a
\* customer at an earlier time, and the record still is.
C2_Witness ==
    \E u \in DOMAIN users :
        /\ users[u].link_deadline = now + SrvGrace
        /\ users[u].updated_at # NoTime
        /\ users[u].updated_at < now
        /\ users[u].subscription_status = "active"
        /\ users[u].stripe_customer_id # NULL

\* C3: after a verify that answered NoCustomer or NoActiveSubscription for a
\* secret, the next verify with that secret is denied.
C3_FailedVerifySpendsToken ==
    [][\A p \in Procs, t \in Secrets, email \in Emails :
          (/\ resp.op = "scan"
           /\ resp.tok = t
           /\ resp.body \in {"no_customer", "no_subscription"}
           /\ LinkScan_Select(p, t, email)) => Denied(p)]_vars

\* C4: verify fails closed: a verify whose secret belongs to a used or an
\* expired token is denied.
C4_VerifyFailsClosed ==
    [][\A p \in Procs, t \in Secrets, email \in Emails :
          (/\ HasToken(t)
           /\ (tokens[t].used_at # NoTime \/ tokens[t].expires_at < now)
           /\ LinkScan_Select(p, t, email)) => Denied(p)]_vars

\* C5: a token past expires_at is inert: a verify or a finish that comes
\* later than expires_at ends at once and changes neither table.
C5_ExpiredIsInert ==
    [][\A p \in Procs, t \in Secrets :
          (/\ HasToken(t)
           /\ tokens[t].expires_at < now
           /\ (LinkFinish_Select(p, t) \/ LinkScan_Select(p, t, "ok@x")))
          => Refused(p)]_vars

\* C6: a finish of a verification token writes the whole triple: the record
\* of the token's owner is active, linked to the payload's customer, and its
\* deadline is cleared.
C6_FinishClearsDeadline ==
    [][\A p \in Procs, x \in BOOLEAN :
          (LinkFinish_Write(p, x) /\ IsVerification(req[p].meta)) =>
              /\ req[p].uid \in DOMAIN users'
              /\ users'[req[p].uid].subscription_status = "active"
              /\ users'[req[p].uid].stripe_customer_id = req[p].meta.customer_id
              /\ users'[req[p].uid].link_deadline = NoTime]_vars

\* The linking state of identity u, read off the two tables (spec 4.2).
Phase(rows, toks, u) ==
    IF u \in DOMAIN rows /\ rows[u].subscription_status = "active" THEN "ACTIVE"
    ELSE IF \E t \in 1..Len(toks) :
                toks[t].discord_id = u /\ IsVerification(toks[t].metadata)
    THEN "AWAITING_FINALIZE"
    ELSE IF \E t \in 1..Len(toks) :
                toks[t].discord_id = u /\ toks[t].metadata = HandshakeMeta
    THEN "AWAITING_EMAIL"
    ELSE "UNLINKED"

\* C7: the happy path.  Issuing the handshake token takes an unlinked
\* identity to AWAITING_EMAIL; issuing the verification token takes it to
\* AWAITING_FINALIZE, the token presented being spent and the new token owned
\* by the same identity and carrying a customer the provider reports with an
\* active subscription; the finish of that token takes it to ACTIVE with the
\* record linked to the payload's customer.
C7_HappyPath ==
    [][\A p \in Procs :
          LET u == req[p].uid
              before == Phase(users, tokens, u)
              after == Phase(users', tokens', u)
          IN /\ (LinkStart_Issue(p) /\ before = "UNLINKED") => after = "AWAITING_EMAIL"
             /\ ((\E m \in BOOLEAN : LinkScan_Issue(p, m)) /\ before = "AWAITING_EMAIL") =>
                    /\ after = "AWAITING_FINALIZE"
                    /\ tokens'[req[p].tok].used_at # NoTime
                    /\ tokens'[resp'.out].discord_id = tokens[req[p].tok].discord_id
                    /\ \E email \in Emails :
                          /\ StripeCustomer(email) = tokens'[resp'.out].metadata.customer_id
                          /\ StripeHasActiveSub(StripeCustomer(email))
             /\ ((\E x \in BOOLEAN : LinkFinish_Write(p, x))
                    /\ IsVerification(req[p].meta) /\ before = "AWAITING_FINALIZE") =>
                    /\ after = "ACTIVE"
                    /\ users'[u].stripe_customer_id = req[p].meta.customer_id]_vars

\* The happy path has been walked: the handshake token of an identity is
\* spent, its verification token has just been finished, and the record is
\* active and linked to the customer of the payload.
C7_Witness ==
    \E t1, t2 \in 1..Len(tokens) :
        /\ tokens[t1].metadata = HandshakeMeta
        /\ tokens[t1].used_at # NoTime
        /\ IsVerification(tokens[t2].metadata)
        /\ tokens[t2].discord_id = tokens[t1].discord_id
        /\ tokens[t2].used_at # NoTime
        /\ RedeemOk(resp, t2)
        /\ resp.op = "finish"
        /\ users[tokens[t2].discord_id].subscription_status = "active"
        /\ users[tokens[t2].discord_id].stripe_customer_id =
               tokens[t2].metadata.customer_id

Triples(rows) ==
    [u \in DOMAIN rows |-> <<rows[u].subscription_status, rows[u].stripe_customer_id,
                             rows[u].link_deadline>>]

\* C9: applying a webhook event twice gives what applying it once gives,
\* also when the second application comes a tick later: status, billing_ref
\* and deadline of every record are the same.
C9_WebhookIdempotent ==
    [][\A p \in Procs, e \in Events :
          /\ Webhook(p, TRUE, e) =>
                Triples(ApplyEvent(users', e, now' + 1)) = Triples(users')
          /\ SrvWebhook(p, TRUE, e) =>
                Triples(SrvApplyEvent(users', e, now' + 1)) = Triples(users')]_vars

\* Event e is a checkout.session.completed for identity u and customer c.
IsCheckout(e, u, c) ==
    e.type = "checkout.session.completed" /\ e.discord_id = u /\ e.customer = c

\* C10: a checkout.session.completed for (u, c) and the finish of a
\* verification token of u with payload c each write, in one step and in
\* whatever state the other left, status active and customer c on the
\* record of u and leave its deadline alone: in either order, and with the
\* webhook between the queries of the finish, the record ends the same.
C10_CheckoutAndFinishConverge ==
    [][\A p \in Procs, u \in DOMAIN users, c \in Customers :
          ((\E e \in Events : IsCheckout(e, u, c) /\ SrvWebhook(p, TRUE, e))
           \/ ((\E x \in BOOLEAN : LinkFinish_Write(p, x))
                 /\ req[p].uid = u /\ req[p].meta = MagicMeta(c)))
          => users' = [users EXCEPT ![u].subscription_status = "active",
                                    ![u].stripe_customer_id = c,
                                    ![u].updated_at = now]]_vars

\* The webhook came between the two UPDATEs of a finish: the finish of a
\* verification token of u with payload c has marked the token, the last
\* response is the webhook's, and the record is already active with c.
C10_Witness ==
    \E p \in Procs :
        /\ req[p].pc = "finish_write"
        /\ IsVerification(req[p].meta)
        /\ resp.op = "srv_webhook"
        /\ resp.code = 200
        /\ users[req[p].uid].subscription_status = "active"
        /\ users[req[p].uid].stripe_customer_id = req[p].meta.customer_id

\* Every request slot is idle: no handler stands between two queries.
AllIdle == \A p \in Procs : req[p].pc = "idle"

\* A record linked to customer c (a NULL reference matches no record).
LinkedTo(rows, u, c) == c # NULL /\ rows[u].stripe_customer_id = c

\* C11: a payment_failed event for customer b sets, on every record linked
\* to b, status payment_issue and a deadline strictly later than the time
\* the event is applied.
C11_PaymentFailedGrace ==
    [][\A p \in Procs, e \in Events :
          (e.type = "invoice.payment_failed" /\ Webhook(p, TRUE, e)) =>
              \A u \in DOMAIN users : LinkedTo(users, u, e.customer) =>
                  /\ users'[u].subscription_status = "payment_issue"
                  /\ users'[u].link_deadline > now]_vars

\* C12: a subscription-ended event for customer b with end timestamp E,
\* handled by either handler file, leaves every record linked to b with
\* deadline E and a status other than active.
C12_SubscriptionEndedDeadline ==
    [][\A p \in Procs, e \in Events :
          (e.type = "customer.subscription.deleted"
             /\ (Webhook(p, TRUE, e) \/ SrvWebhook(p, TRUE, e))) =>
              \A u \in DOMAIN users : LinkedTo(users, u, e.customer) =>
                  /\ users'[u].link_deadline = e.current_period_end
                  /\ users'[u].subscription_status # "active"]_vars

\* No record is linked to customer c.
Unmatched(c) == \A u \in DOMAIN users : ~LinkedTo(users, u, c)

\* C13: a verified webhook event whose customer matches no record is a
\* no-op answered 200: the handler file's /webhook (every event type) and
\* server.js's subscription-deleted branch change neither table, and no
\* webhook of either file ever creates a record.  (A checkout-completed
\* event is keyed by the identity in its metadata, not by the customer.)
C13_UnmatchedWebhookNoOp ==
    [][\A p \in Procs, e \in Events :
          (Webhook(p, TRUE, e) \/ SrvWebhook(p, TRUE, e)) =>
              /\ resp'.code = 200
              /\ DOMAIN users' = DOMAIN users
              /\ (/\ Unmatched(e.customer)
                  /\ \/ resp'.op = "webhook"
                     \/ e.type = "customer.subscription.deleted") =>
                     users' = users /\ tokens' = tokens]_vars

\* The handler file's /webhook was the last handler to run and answered 200,
\* while records and tokens exist and no record is linked to any customer:
\* whatever customer its event named matched no record.
C13_Witness ==
    /\ AllIdle
    /\ resp.op = "webhook"
    /\ resp.code = 200
    /\ DOMAIN users # {}
    /\ tokens # <<>>
    /\ \A u \in DOMAIN users : users[u].stripe_customer_id = NULL

\* C14: a webhook request whose signature fails verification is answered
\* 400 and changes neither table, for every event and in either handler file.
C14_BadSignatureRejected ==
    [][\A p \in Procs, e \in Events :
          (Webhook(p, FALSE, e) \/ SrvWebhook(p, FALSE, e)) =>
              /\ resp'.code = 400
              /\ users' = users
              /\ tokens' = tokens]_vars

\* The handler file's /webhook has just answered 400 while an active record
\* linked to a customer exists, which its events could have kicked.
C14_Witness ==
    /\ AllIdle
    /\ resp.op = "webhook"
    /\ resp.code = 400
    /\ \E u \in DOMAIN users :
          /\ users[u].subscription_status = "active"
          /\ users[u].stripe_customer_id # NULL

\* C15: stripe_customer_id is unique across records when it is not NULL.
C15_BillingRefUnique ==
    \A u, v \in DOMAIN users :
        (u # v /\ users[u].stripe_customer_id # NULL) =>
            users[u].stripe_customer_id # users[v].stripe_customer_id

\* C16: GET /link of the handler file only reads: it answers 403 exactly
\* when the token is not found, expired or used, and whatever it answers it
\* leaves both tables as they were, so a live token that was presented is
\* still found live afterwards.
C16_PresentReadOnly ==
    [][\A p \in Procs, t \in Secrets :
          LinkPresent(p, t) =>
              /\ resp'.code = (IF LiveToken(t) THEN 200 ELSE 403)
              /\ tokens' = tokens
              /\ users' = users
              /\ LiveToken(t) => LiveToken(t)']_vars

\* A live token was presented, the form was served, and a verify with the
\* same secret that came after it has passed the lookups and marked the
\* token.
C16_Witness ==
    /\ resp.op = "present"
    /\ resp.code = 200
    /\ Used(resp.tok)
    /\ tokens[resp.tok].used_at = now
    /\ tokens[resp.tok].expires_at > now
    /\ \E p \in Procs : req[p].pc = "scan_issue" /\ req[p].tok = resp.tok
    /\ \A q \in Procs : req[q].pc \in {"idle", "scan_issue"}

\* Record u is active after the step and was not (or did not exist) before.
BecomesActive(u) ==
    /\ u \in DOMAIN users'
    /\ users'[u].subscription_status = "active"
    /\ u \in DOMAIN users => users[u].subscription_status # "active"

\* C17: a record becomes active only in the last step of a finish that
\* redeems a verification token of that identity, or in a
\* checkout-completed webhook for that identity.
C17_ActiveOnlyByFinishOrCheckout ==
    [][\A u \in Users :
          BecomesActive(u) =>
              \E p \in Procs :
                  \/ /\ \E x \in BOOLEAN : LinkFinish_Write(p, x)
                     /\ req[p].uid = u
                     /\ IsVerification(req[p].meta)
                  \/ \E e \in Events :
                        /\ e.type = "checkout.session.completed"
                        /\ e.discord_id = u
                        /\ SrvWebhook(p, TRUE, e)]_vars

\* C18: the status of every record is one of unlinked, active,
\* payment_issue.
C18_StatusDomain ==
    \A u \in DOMAIN users :
        users[u].subscription_status \in {"unlinked", "active", "payment_issue"}

\* C19: used_at of a token is set once: a used_at that is not NULL never
\* changes again.
C19_UsedAtSetOnce ==
    [][\A t \in 1..Len(tokens) :
          Used(t) => tokens'[t].used_at = tokens[t].used_at]_vars

\* C20: when the delivery of the e-mail fails, the verify keeps what it
\* wrote: the handshake token stays used, and the magic token exists, is
\* owned by the same identity, carries the customer, and is not used (the
\* SELECT of /link/finish finds it).
C20_EmailFailureKeepsState ==
    [][\A p \in Procs :
          LinkScan_Issue(p, FALSE) =>
              LET n == Len(tokens) + 1
              IN /\ resp'.body = "email_failed"
                 /\ tokens'[req[p].tok].used_at # NoTime
                 /\ Len(tokens') = n
                 /\ tokens'[n].discord_id = req[p].uid
                 /\ tokens'[n].metadata = req[p].meta
                 /\ IsVerification(tokens'[n].metadata)
                 /\ tokens'[n].used_at = NoTime]_vars

\* The delivery failed, and a finish with the secret of the magic token
\* issued by that verify has found the token and marked it, while the
\* handshake token is still used.
C20_Witness ==
    /\ resp.body = "email_failed"
    /\ Used(resp.tok)
    /\ Used(resp.out)
    /\ IsVerification(tokens[resp.out].metadata)
    /\ \E p \in Procs : req[p].pc = "finish_write" /\ req[p].tok = resp.out

\* C21: when the store is unavailable while a verified webhook event is
\* applied, the endpoint of either handler file answers with a 5xx status:
\* an event whose change of the users table was not written is not
\* acknowledged.
C21_StoreDownNotAcknowledged ==
    [][\A p \in Procs, e \in Events :
          /\ (Webhook_StoreDown(p, e) /\ ApplyEvent(users, e, now) # users) =>
                resp'.code >= 500
          /\ (SrvWebhook_StoreDown(p, e) /\ SrvApplyEvent(users, e, now) # users) =>
                resp'.code >= 500]_vars

\* C22: issuing a token spends no other token.  The INSERT of a start (of
\* either handler file) adds one row, live and owned by the given identity
\* (with the handshake payload in the handler file), and no step of a start
\* changes a row that was there before.
C22_StartKeepsOtherTokens ==
    [][\A p \in Procs :
          /\ StartStep(p) =>
                \A t \in 1..Len(tokens) : Len(tokens') >= t /\ tokens'[t] = tokens[t]
          /\ (LinkStart_Issue(p) \/ SrvLinkStart_Issue(p)) =>
                LET n == Len(tokens) + 1
                IN /\ Len(tokens') = n
                   /\ tokens'[n].discord_id = req[p].uid
                   /\ tokens'[n].used_at = NoTime
                   /\ tokens'[n].expires_at > now
                   /\ req[p].op = "start" => tokens'[n].metadata = HandshakeMeta]_vars

\* Two handshake tokens of one identity are live at the same time.
C22_Witness ==
    \E t1, t2 \in 1..Len(tokens) :
        /\ t1 < t2
        /\ tokens[t1].discord_id = tokens[t2].discord_id
        /\ tokens[t1].metadata = HandshakeMeta
        /\ tokens[t2].metadata = HandshakeMeta
        /\ LiveToken(t1)
        /\ LiveToken(t2)

\* C23: an active record has a stripe_customer_id that is not NULL.
C23_ActiveHasBillingRef ==
    \A u \in DOMAIN users :
        users[u].subscription_status = "active" => users[u].stripe_customer_id # NULL

\* C24: the token a verify issues is owned by the owner of the token that was
\* presented and carries the customer the provider returned for the e-mail
\* of that call, and the finish of a token writes only to the record of the
\* token's owner.
C24_OwnerAndCustomerCarried ==
    [][\A p \in Procs :
          /\ \A t \in Secrets, email \in Emails :
                (LinkScan_Select(p, t, email) /\ req'[p].pc = "scan_mark") =>
                    /\ req'[p].uid = tokens[t].discord_id
                    /\ req'[p].meta.customer_id = StripeCustomer(email)
                    /\ StripeCustomer(email) # NULL
          /\ (LinkScan_Mark(p) \/ LinkFinish_Mark(p)) =>
                req'[p].uid = req[p].uid /\ req'[p].meta = req[p].meta
          /\ (\E m \in BOOLEAN : LinkScan_Issue(p, m)) =>
                /\ tokens'[Len(tokens) + 1].discord_id = tokens[req[p].tok].discord_id
                /\ tokens'[Len(tokens) + 1].discord_id = req[p].uid
                /\ tokens'[Len(tokens) + 1].metadata.customer_id = req[p].meta.customer_id
          /\ \A t \in Secrets :
                (LinkFinish_Select(p, t) /\ req'[p].pc = "finish_mark") =>
                    /\ req'[p].uid = tokens[t].discord_id
                    /\ req'[p].meta = tokens[t].metadata
          /\ (\E x \in BOOLEAN : LinkFinish_Write(p, x)) =>
                \A u \in DOMAIN users :
                    users'[u] # users[u] => u = tokens[req[p].tok].discord_id]_vars

\* Two identities have started; the one whose handshake token was verified
\* has been linked by the finish of its magic token to the customer of the
\* payload, and the record of the other is as its start created it.
C24_Witness ==
    /\ resp.op = "finish"
    /\ resp.code = 200
    /\ IsVerification(tokens[resp.tok].metadata)
    /\ \E u, v \in DOMAIN users :
          /\ u # v
          /\ tokens[resp.tok].discord_id = u
          /\ users[u].subscription_status = "active"
          /\ users[u].stripe_customer_id = tokens[resp.tok].metadata.customer_id
          /\ users[v].subscription_status = "unlinked"
          /\ users[v].stripe_customer_id = NULL

\* The record of identity u is created, deleted or changed in this step.
Changed(u) ==
    \/ (u \in DOMAIN users') # (u \in DOMAIN users)
    \/ u \in DOMAIN users /\ u \in DOMAIN users' /\ users'[u] # users[u]

\* C25: each operation changes only the records it is keyed on.  When the
\* record of u changes in a step, the step is not a step of a finish unless
\* it is the UPDATE of a finish whose token is owned by u, it is not a step
\* of a start unless it is the upsert of a start for u, and it is not the
\* handling of a payment-failed or subscription-ended event unless the
\* record was linked to the customer of the event; and a step that changes
\* the table of tokens is not a webhook request.
C25_KeyedWritesOnly ==
    [][/\ \A u \in Users :
             Changed(u) =>
                 \A p \in Procs :
                     /\ (\E x \in BOOLEAN : LinkFinish_Write(p, x)) => req[p].uid = u
                     /\ ~LinkFinish_Mark(p)
                     /\ \A t \in Secrets : ~LinkFinish_Select(p, t)
                     /\ \A v \in Users :
                           (LinkStart_Upsert(p, v) \/ SrvLinkStart_Upsert(p, v)) => v = u
                     /\ ~LinkStart_Issue(p)
                     /\ ~SrvLinkStart_Issue(p)
                     /\ \A e \in Events :
                           (Webhook(p, TRUE, e)
                              \/ (SrvWebhook(p, TRUE, e)
                                    /\ e.type = "customer.subscription.deleted")) =>
                               u \in DOMAIN users /\ LinkedTo(users, u, e.customer)
       /\ tokens' # tokens =>
             \A p \in Procs, e \in Events :
                 /\ \A sigOk \in BOOLEAN :
                       ~Webhook(p, sigOk, e) /\ ~SrvWebhook(p, sigOk, e)
                 /\ ~Webhook_StoreDown(p, e)
                 /\ ~SrvWebhook_StoreDown(p, e)]_vars

\* The handler file's /webhook has just kicked the record linked to a
\* customer (its deadline is the time of a payment-failed event) while the
\* record of another identity, linked to no customer, is as its start
\* created it.
C25_Witness ==
    /\ AllIdle
    /\ resp.op = "webhook"
    /\ resp.code = 200
    /\ \E u, v \in DOMAIN users :
          /\ u # v
          /\ users[u].stripe_customer_id # NULL
          /\ users[u].subscription_status = "unlinked"
          /\ users[u].link_deadline = now
          /\ users[v].stripe_customer_id = NULL
          /\ users[v].subscription_status = "unlinked"
          /\ users[v].link_deadline > now
====
